---- MODULE Spec2Model ----
(***************************************************************************)
(* Event scheduling core of fish-tracker: the Meteor methods               *)
(* events.insert / events.update / events.delete / events.complete /       *)
(* events.getStats (imports/api/events/EventsMethods.js), the validation   *)
(* service validateEventData (imports/api/events/EventsCollection.js),     *)
(* the recurrence calculator calculateNextOccurrence, the publications     *)
(* of events (events.all, events.byFish, events.today, events.overdue,     *)
(* events.filtered), the live statistics publication events.stats with     *)
(* its calculateStats, and the client hook useEvents.                      *)
(*                                                                         *)
(* The publication handler runs in a fiber: every synchronous collection   *)
(* call it makes (observe, count) yields, so method steps and observer     *)
(* callbacks interleave with it at those points.                           *)
(*                                                                         *)
(* A method is an async function: between two awaited collection calls     *)
(* other method invocations may run.  Each action below is one awaited     *)
(* collection call of one invocation together with the synchronous code    *)
(* that follows it up to the next await (or the return).  The code that    *)
(* precedes the first await of an invocation is folded into its first      *)
(* action.  The fish collection is never written by these methods, so the  *)
(* awaited fish lookup is folded into the step that precedes it.           *)
(*                                                                         *)
(* Dates are day numbers counted from 2020-01-01 (day 0); the time of day  *)
(* is not modelled.                                                        *)
(***************************************************************************)
EXTENDS Integers, Sequences, FiniteSets, TLC

\* ------------------------------------------------------------------------
\* Bounds of the model
\* ------------------------------------------------------------------------
MaxCalls == 3      \* method invocations started in one behaviour
MaxInserts == 2    \* events.insert invocations that reach insertAsync
MaxNow == 32       \* last day the server clock reaches

\* ------------------------------------------------------------------------
\* Values
\* ------------------------------------------------------------------------
Null == "null"               \* a null / missing string-valued field
NoDate == 0 - 100000         \* a null / missing Date-valued field
NoUser == "null"             \* this.userId of a connection that is not logged in

Owners == {"A", "B"}
Callers == Owners \cup {NoUser}
Procs == {"p1", "p2"}        \* method invocations that may overlap

\* FishCollection: _id -> ownerId.  "f1" belongs to A, "f2" to B.
FishIds == {"f1", "f2"}
FishCollection == [f \in FishIds |-> IF f = "f1" THEN "A" ELSE "B"]

StartNow == 31               \* server clock at start: 2020-02-01
EpochDay == 0                \* new Date('2020-01-01')
BaseYear == 2020             \* calendar year of day 0

\* ------------------------------------------------------------------------
\* Calendar arithmetic of the JavaScript Date object (day granularity)
\* ------------------------------------------------------------------------
IsLeap(y) == (y % 4 = 0 /\ y % 100 # 0) \/ y % 400 = 0

DaysInYear(y) == IF IsLeap(y) THEN 366 ELSE 365

\* m is a JavaScript month, 0..11
DaysInMonth(y, m) ==
    IF m = 1 THEN (IF IsLeap(y) THEN 29 ELSE 28)
    ELSE IF m \in {3, 5, 8, 10} THEN 30 ELSE 31

RECURSIVE DaysBeforeYear(_)
DaysBeforeYear(y) ==
    IF y <= BaseYear THEN 0 ELSE DaysBeforeYear(y - 1) + DaysInYear(y - 1)

RECURSIVE DaysBeforeMonth(_, _)
DaysBeforeMonth(y, m) ==
    IF m <= 0 THEN 0 ELSE DaysBeforeMonth(y, m - 1) + DaysInMonth(y, m - 1)

\* Date components of a day number >= 0: <<year, month (0..11), day of month>>
RECURSIVE YearOf(_, _)
YearOf(day, y) ==
    IF day < DaysInYear(y) THEN <<y, day>> ELSE YearOf(day - DaysInYear(y), y + 1)

RECURSIVE MonthOf(_, _, _)
MonthOf(y, doy, m) ==
    IF doy < DaysInMonth(y, m) THEN <<m, doy + 1>>
    ELSE MonthOf(y, doy - DaysInMonth(y, m), m + 1)

getFullYear(day) == YearOf(day, BaseYear)[1]
getMonth(day) == MonthOf(getFullYear(day), YearOf(day, BaseYear)[2], 0)[1]
getDate(day) == MonthOf(getFullYear(day), YearOf(day, BaseYear)[2], 0)[2]

\* The Date built from (year, month, day of month), where the month may be
\* 12 and the day of month may exceed the length of the month: the Date
\* object carries the excess over into the following month / year.
MakeDay(y, m, d) ==
    LET yy == IF m > 11 THEN y + 1 ELSE y
        mm == IF m > 11 THEN m - 12 ELSE m
    IN  DaysBeforeYear(yy) + DaysBeforeMonth(yy, mm) + (d - 1)

\* nextDate.setDate(nextDate.getDate() + n)
setDate(day, n) == day + n

\* nextDate.setMonth(nextDate.getMonth() + 1)
setMonth(day) == MakeDay(getFullYear(day), getMonth(day) + 1, getDate(day))

calculateNextOccurrence(currentDate, recurrence) ==
    CASE recurrence = "daily"   -> setDate(currentDate, 1)
      [] recurrence = "weekly"  -> setDate(currentDate, 7)
      [] recurrence = "monthly" -> setMonth(currentDate)
      [] OTHER                  -> NoDate

\* ------------------------------------------------------------------------
\* Validation service
\* ------------------------------------------------------------------------
validTargetTypes == {"fish", "aquarium"}
EVENT_TYPES == {"feeding", "cleaning", "water_change", "medication",
                "aquarium_medication", "observation", "maintenance", "other"}
EVENT_PRIORITIES == {"low", "medium", "high"}
EVENT_RECURRENCES == {"daily", "weekly", "monthly"}

\* JavaScript truthiness of a string-valued / Date-valued field
Truthy(s) == s # Null /\ s # ""
HasDate(d) == d # NoDate

\* Free text (notes) is a sequence of characters; NoText is a missing text
NoText == <<"undefined">>
TruthyText(t) == t # NoText /\ t # <<>>

\* String.prototype.trim
RECURSIVE trimStart(_)
trimStart(t) == IF t # <<>> /\ Head(t) = " " THEN trimStart(Tail(t)) ELSE t

RECURSIVE trimEnd(_)
trimEnd(t) ==
    IF t # <<>> /\ t[Len(t)] = " " THEN trimEnd(SubSeq(t, 1, Len(t) - 1)) ELSE t

trim(t) == trimEnd(trimStart(t))

\* validateEventData without the rule on aquarium_medication
validateWithoutCoherence(e) ==
    (IF ~Truthy(e.targetType) \/ e.targetType \notin validTargetTypes
        THEN <<"target-type">> ELSE <<>>)
    \o (IF e.targetType = "fish" /\ ~Truthy(e.fishId)
        THEN <<"fish-id-required">> ELSE <<>>)
    \o (IF ~Truthy(e.type) \/ e.type \notin EVENT_TYPES
        THEN <<"event-type">> ELSE <<>>)
    \o (IF ~HasDate(e.scheduledAt) THEN <<"scheduled-required">>
        ELSE IF e.scheduledAt < EpochDay THEN <<"scheduled-before-2020">>
        ELSE <<>>)
    \o (IF Truthy(e.priority) /\ e.priority \notin EVENT_PRIORITIES
        THEN <<"priority">> ELSE <<>>)
    \o (IF Truthy(e.recurrence) /\ e.recurrence \notin EVENT_RECURRENCES
        THEN <<"recurrence">> ELSE <<>>)
    \o (IF HasDate(e.completedAt) /\ HasDate(e.scheduledAt)
           /\ e.completedAt < e.scheduledAt
        THEN <<"completed-before-scheduled">> ELSE <<>>)

\* validateEventData: the ordered list of violations of a (merged) record.
\* Title, description and notes are valid in every payload of the model, so
\* their rules contribute no message.
validateEventData(e) ==
    (IF ~Truthy(e.targetType) \/ e.targetType \notin validTargetTypes
        THEN <<"target-type">> ELSE <<>>)
    \o (IF e.targetType = "fish" /\ ~Truthy(e.fishId)
        THEN <<"fish-id-required">> ELSE <<>>)
    \o (IF ~Truthy(e.type) \/ e.type \notin EVENT_TYPES
        THEN <<"event-type">> ELSE <<>>)
    \o (IF e.type = "aquarium_medication" /\ e.targetType # "aquarium"
        THEN <<"aquarium-medication-target">> ELSE <<>>)
    \o (IF ~HasDate(e.scheduledAt) THEN <<"scheduled-required">>
        ELSE IF e.scheduledAt < EpochDay THEN <<"scheduled-before-2020">>
        ELSE <<>>)
    \o (IF Truthy(e.priority) /\ e.priority \notin EVENT_PRIORITIES
        THEN <<"priority">> ELSE <<>>)
    \o (IF Truthy(e.recurrence) /\ e.recurrence \notin EVENT_RECURRENCES
        THEN <<"recurrence">> ELSE <<>>)
    \o (IF HasDate(e.completedAt) /\ HasDate(e.scheduledAt)
           /\ e.completedAt < e.scheduledAt
        THEN <<"completed-before-scheduled">> ELSE <<>>)

isValid(e) == validateEventData(e) = <<>>

\* ------------------------------------------------------------------------
\* Documents and payloads
\* ------------------------------------------------------------------------
\* A JavaScript object over the event fields: keys is the set of properties
\* the object has; a field that is not in keys holds its blank value.
Blank ==
    [keys |-> {}, ownerId |-> Null, targetType |-> Null, fishId |-> Null,
     type |-> Null, scheduledAt |-> NoDate, isCompleted |-> FALSE,
     completedAt |-> NoDate, priority |-> Null, recurrence |-> Null,
     nextOccurrence |-> NoDate, notes |-> NoText]

With(obj, k, v) == [obj EXCEPT !.keys = @ \cup {k}, ![k] = v]

\* A stored document: every field is present (null when it has no value;
\* the notes are '' until a method is passed some).
Doc(owner, targetType, fishId, type, scheduledAt, isCompleted, completedAt, priority, recurrence, nextOccurrence) ==
    [ownerId |-> owner, targetType |-> targetType, fishId |-> fishId,
     type |-> type, scheduledAt |-> scheduledAt, isCompleted |-> isCompleted,
     completedAt |-> completedAt, priority |-> priority,
     recurrence |-> recurrence, nextOccurrence |-> nextOccurrence,
     notes |-> <<>>]

DocFields == {"ownerId", "targetType", "fishId", "type", "scheduledAt",
              "isCompleted", "completedAt", "priority", "recurrence",
              "nextOccurrence", "notes"}

\* { ...existingEvent, ...updateData } and the effect of { $set: fields }
Merge(doc, obj) ==
    [k \in DocFields |-> IF k \in obj.keys THEN obj[k] ELSE doc[k]]

\* ------------------------------------------------------------------------
\* Statistics (getEventStats and calculateStats run the same six queries)
\* ------------------------------------------------------------------------
\* A selector of a count query: ownerId is always the user's;
\* isCompleted is "any", "true" or "false"; scheduledAt is "any", "lt-now"
\* ({ $lt: now }) or "today" ({ $gte: startOfDay, $lte: endOfDay })
Selector(isCompleted, scheduledAt) ==
    [isCompleted |-> isCompleted, scheduledAt |-> scheduledAt]

\* The six count queries, in the order the code runs them
StatsQueries ==
    << Selector("any", "any"),      \* total
       Selector("true", "any"),       \* completed
       Selector("false", "any"),      \* pending
       Selector("false", "lt-now"),   \* overdue
       Selector("any", "today"),    \* todayTotal
       Selector("true", "today") >>   \* todayCompleted

\* overdue counted with $lte instead of $lt
MatchesLte(doc, userId, q, at) ==
    /\ doc.ownerId = userId
    /\ q.isCompleted = "any" \/ doc.isCompleted = (q.isCompleted = "true")
    /\ CASE q.scheduledAt = "lt-now" -> HasDate(doc.scheduledAt) /\ doc.scheduledAt <= at
         [] q.scheduledAt = "today"  -> doc.scheduledAt = at
         [] OTHER                    -> TRUE
\* The document matches { ownerId: userId, ...q } when the clock reads at
Matches(doc, userId, q, at) ==
    /\ doc.ownerId = userId
    /\ q.isCompleted = "any" \/ doc.isCompleted = (q.isCompleted = "true")
    /\ CASE q.scheduledAt = "lt-now" -> HasDate(doc.scheduledAt) /\ doc.scheduledAt < at
         [] q.scheduledAt = "today"  -> doc.scheduledAt = at
         [] OTHER                    -> TRUE

\* EventsCollection.find(selector).count() / .countAsync()
countOf(store, userId, q, at) ==
    Cardinality({ i \in DOMAIN store : Matches(store[i], userId, q, at) })

\* the rate truncated instead of rounded
completionRateFloor(completed, total) ==
    IF total > 0 THEN (100 * completed) \div total ELSE 0
\* Math.round((completed / total) * 100): halves round up
completionRateOf(completed, total) ==
    IF total > 0 THEN (200 * completed + total) \div (2 * total) ELSE 0

\* The object the statistics code returns, from its six counts
statsOf(c) ==
    [total |-> c[1], completed |-> c[2], pending |-> c[3], overdue |-> c[4],
     todayTotal |-> c[5], todayCompleted |-> c[6],
     todayRemaining |-> c[5] - c[6],
     completionRate |-> completionRateOf(c[2], c[1])]

NoStats == statsOf(<<0, 0, 0, 0, 0, 0>>)

\* ------------------------------------------------------------------------
\* Publications of documents: events.all, events.byFish, events.today,
\* events.overdue, events.filtered
\* ------------------------------------------------------------------------
PubNames == {"events.all", "events.byFish", "events.today", "events.overdue",
             "events.filtered"}

\* The selector of a cursor: a field holds the value a document must have,
\* or "any" when the selector has no such key; gte, lte, lt are the bounds
\* on scheduledAt (NoDate: no such bound)
AnyQuery(userId) ==
    [ownerId |-> userId, type |-> "any", isCompleted |-> "any",
     priority |-> "any", fishId |-> "any",
     gte |-> NoDate, lte |-> NoDate, lt |-> NoDate]

NoQuery == AnyQuery(NoUser)

\* The document is in the result of find(q)
QueryMatches(doc, q) ==
    /\ q.ownerId = "any" \/ doc.ownerId = q.ownerId
    /\ q.type = "any" \/ doc.type = q.type
    /\ q.isCompleted = "any" \/ doc.isCompleted = (q.isCompleted = "true")
    /\ q.priority = "any" \/ doc.priority = q.priority
    /\ q.fishId = "any" \/ doc.fishId = q.fishId
    /\ q.gte = NoDate \/ (HasDate(doc.scheduledAt) /\ doc.scheduledAt >= q.gte)
    /\ q.lte = NoDate \/ (HasDate(doc.scheduledAt) /\ doc.scheduledAt <= q.lte)
    /\ q.lt = NoDate \/ (HasDate(doc.scheduledAt) /\ doc.scheduledAt < q.lt)

\* The filters object a subscriber of events.filtered passes (any properties)
NoFilters ==
    [keys |-> {}, ownerId |-> Null, type |-> Null, isCompleted |-> FALSE,
     priority |-> Null, fishId |-> Null, dateFrom |-> NoDate, dateTo |-> NoDate]

\* the query of events.filtered with the filters' ownerId copied as well
filteredQuerySpread(filters, userId) ==
    [AnyQuery(userId) EXCEPT
        !.ownerId = IF "ownerId" \in filters.keys THEN filters.ownerId ELSE userId,
        !.type = IF Truthy(filters.type) THEN filters.type ELSE "any",
        !.isCompleted = IF "isCompleted" \in filters.keys
                           THEN (IF filters.isCompleted THEN "true" ELSE "false")
                           ELSE "any",
        !.priority = IF Truthy(filters.priority) THEN filters.priority ELSE "any",
        !.fishId = IF Truthy(filters.fishId) THEN filters.fishId ELSE "any",
        !.gte = filters.dateFrom,
        !.lte = filters.dateTo]
\* query of events.filtered: ownerId and the filters the code copies
filteredQuery(filters, userId) ==
    [AnyQuery(userId) EXCEPT
        !.type = IF Truthy(filters.type) THEN filters.type ELSE "any",
        !.isCompleted = IF "isCompleted" \in filters.keys
                           THEN (IF filters.isCompleted THEN "true" ELSE "false")
                           ELSE "any",
        !.priority = IF Truthy(filters.priority) THEN filters.priority ELSE "any",
        !.fishId = IF Truthy(filters.fishId) THEN filters.fishId ELSE "any",
        !.gte = filters.dateFrom,
        !.lte = filters.dateTo]

\* options.limit of a subscriber that passes none
NoLimit == 0 - 100000

Min(a, b) == IF a < b THEN a ELSE b

\* limit: Math.min(options.limit || 50, 100); undefined and 0 are falsy
queryLimit(limit) == Min(IF limit = NoLimit \/ limit = 0 THEN 50 ELSE limit, 100)

\* The selector of the cursor a publication returns for a logged-in user;
\* today and overdue read the clock when the handler runs
queryOf(name, userId, fishId, filters, at) ==
    CASE name = "events.all"      -> AnyQuery(userId)
      [] name = "events.byFish"   -> [AnyQuery(userId) EXCEPT !.fishId = fishId]
      [] name = "events.today"    -> [AnyQuery(userId) EXCEPT !.gte = at, !.lte = at]
      [] name = "events.overdue"  -> [AnyQuery(userId) EXCEPT !.isCompleted = "false",
                                                             !.lt = at]
      [] name = "events.filtered" -> filteredQuery(filters, userId)

\* ------------------------------------------------------------------------
\* State
\* ------------------------------------------------------------------------
VARIABLES
    events,    \* EventsCollection: _id -> document
    nextId,    \* the _id the next insertAsync generates
    now,       \* the server clock, new Date()
    calls,     \* per invocation slot: position and locals of the method
    ret,       \* what the latest step returned or threw to its caller, if anything
    ncalls,    \* invocations and subscriptions started so far
    subs,      \* per subscription slot: the publication it runs
    hook       \* the state of the useEvents hook of one client component

vars == <<events, nextId, now, calls, ret, ncalls, subs, hook>>

Ids == DOMAIN events

Idle ==
    [pc |-> "idle", op |-> Null, caller |-> NoUser, id |-> 0,
     event |-> Merge(Blank, Blank), fields |-> Blank, spawned |-> 0,
     at |-> NoDate, counts |-> <<>>, notes |-> <<>>]

\* The outcome of an invocation: the value it returns or the error it throws
\* (errors: the messages of a validation-error; data: the payload of an
\* invocation that got past the authentication and the event lookup; stats:
\* the object events.getStats returns)
Outcome(op, caller, id, spawned, result) ==
    [op |-> op, caller |-> caller, id |-> id, spawned |-> spawned,
     result |-> result, errors |-> <<>>, data |-> Blank, stats |-> NoStats]

\* The outcome of an invocation that was passed the payload data; when it
\* throws validation-error the error carries validation.errors
Rejected(op, caller, id, data, err, errors) ==
    [Outcome(op, caller, id, 0, err) EXCEPT
        !.data = data,
        !.errors = IF err = "validation-error" THEN errors ELSE <<>>]

NoOutcome == Outcome(Null, NoUser, 0, 0, Null)

\* The calls of the hook's functions that may be in flight together
HookCalls == {"h1", "h2"}

\* useState(false), useState(''), and no call of a function of the hook
\* in flight (inFlight: per call, the function that awaits its Meteor.call)
NoHook ==
    [isLoading |-> FALSE, error |-> "", inFlight |-> [h \in HookCalls |-> Null]]

\* Subscription slots of the events.stats publication (one subscription is
\* followed through its life)
Subs == {"s1"}

\* A slot no client has subscribed on.  state: the subscription as the
\* session sees it (initializing until ready(), live, stopped); pc: the
\* position of the publish handler; initializing, observing (the observe
\* handle is registered and not stopped), onStop (the stop callback is
\* registered): what the handler has set up; cache: the documents the
\* observer has reported so far; at, counts: the calculateStats the handler
\* runs; cb, cbid, cbat, cbcounts: the observe callback that is running and
\* its calculateStats; sent, delivered: the eventStats document the client
\* has been sent; last: what sent it (the handler's added, or the kind of
\* the callback whose changed it was).  name: the publication subscribed to;
\* query, limit: the selector and the limit of the cursor a publication of
\* documents returns (its cache is the set of documents the client holds).
NoSub ==
    [state |-> "none", name |-> Null, query |-> NoQuery, limit |-> 0,
     userId |-> NoUser, pc |-> "idle", stoppedBy |-> Null,
     initializing |-> FALSE, observing |-> FALSE, onStop |-> FALSE,
     cache |-> << >>, at |-> NoDate, counts |-> <<>>,
     cb |-> "none", cbid |-> 0, cbat |-> NoDate, cbcounts |-> <<>>,
     sent |-> FALSE, delivered |-> NoStats, last |-> "none"]

Init ==
    /\ events = << >>
    /\ nextId = 1
    /\ now = StartNow
    /\ calls = [p \in Procs |-> Idle]
    /\ ret = NoOutcome
    /\ ncalls = 0
    /\ subs = [s \in Subs |-> NoSub]
    /\ hook = NoHook

\* A client may invoke a method while a slot runs no invocation; the slots
\* are interchangeable, so the invocation takes one fixed free slot
CanStart(p) ==
    /\ calls[p].pc = "idle" /\ ncalls < MaxCalls
    /\ p = CHOOSE q \in Procs : calls[q].pc = "idle"

\* The ids a client may name: every id generated so far and one that was not
TargetIds == 1 .. nextId

\* EventsCollection.findOneAsync({ _id: eventId, ownerId: this.userId })
\* returns a document
OwnedAnyOwner(eventId, userId) == eventId \in Ids
Owned(eventId, userId) ==
    eventId \in Ids /\ events[eventId].ownerId = userId

\* FishCollection.findOneAsync({ _id: fishId, ownerId: this.userId })
\* returns a document
FishOwned(fishId, userId) ==
    fishId \in FishIds /\ FishCollection[fishId] = userId

\* insertAsync / removeAsync on the collection
InsertDoc(store, id, doc) ==
    [i \in DOMAIN store \cup {id} |-> IF i = id THEN doc ELSE store[i]]
RemoveDoc(store, id) == [i \in DOMAIN store \ {id} |-> store[i]]

\* updateAsync(eventId, { $set: fields }): the selector is the _id alone
UpdateDoc(store, id, fields) ==
    [i \in DOMAIN store |-> IF i = id THEN Merge(store[i], fields) ELSE store[i]]

\* ------------------------------------------------------------------------
\* events.insert
\* ------------------------------------------------------------------------
\* Payloads of events.insert: check() requires type, scheduledAt and
\* targetType (and title, not modelled) to be present.
InsertDates == {EpochDay - 1, StartNow - 1, StartNow + 1}
InsertPayloads ==
    { With(With(With(With(Blank, "targetType", "aquarium"), "type", "feeding"),
           "scheduledAt", d), "recurrence", r) :
        d \in InsertDates, r \in {Null, "daily"} }

\* eventToInsert with the payload spread after the defaults
eventToInsertAsGiven(eventData, userId) ==
    Merge(Doc(userId, Null, Null, Null, NoDate, FALSE, NoDate, "medium", Null, NoDate),
          eventData)
eventToInsert(eventData, userId) ==
    [Doc(userId, eventData.targetType, eventData.fishId, eventData.type,
         eventData.scheduledAt, FALSE, NoDate,
         IF Truthy(eventData.priority) THEN eventData.priority ELSE "medium",
         IF Truthy(eventData.recurrence) THEN eventData.recurrence ELSE Null,
         IF Truthy(eventData.recurrence)
             THEN calculateNextOccurrence(eventData.scheduledAt, eventData.recurrence)
             ELSE NoDate)
     EXCEPT !.notes = IF TruthyText(eventData.notes) THEN trim(eventData.notes)
                      ELSE <<>>]

\* insertError without the check of this.userId
insertErrorUnchecked(eventData, userId) ==
    IF eventData.targetType = "fish" /\ ~Truthy(eventData.fishId)
        THEN "match-failed"
    ELSE IF eventData.targetType = "fish" /\ ~FishOwned(eventData.fishId, userId)
        THEN "fish-not-found"
    ELSE IF ~isValid(Merge(Merge(Blank, Blank), eventData))
        THEN "validation-error"
    ELSE Null
\* The error insertEvent throws before it reaches insertAsync, or Null
insertError(eventData, userId) ==
    IF userId = NoUser THEN "not-authorized"
    ELSE IF eventData.targetType = "fish" /\ ~Truthy(eventData.fishId)
        THEN "match-failed"
    ELSE IF eventData.targetType = "fish" /\ ~FishOwned(eventData.fishId, userId)
        THEN "fish-not-found"
    ELSE IF ~isValid(Merge(Merge(Blank, Blank), eventData))
        THEN "validation-error"
    ELSE Null

InsertWith(p, payloads) ==
    /\ CanStart(p)
    /\ \E userId \in Callers, eventData \in payloads :
        LET err == insertError(eventData, userId) IN
        IF err = "not-authorized"
        THEN /\ calls' = calls /\ ret' = Outcome("insert", userId, 0, 0, err)
             /\ UNCHANGED <<events, nextId>>
        ELSE IF err # Null
        THEN /\ calls' = calls
             /\ ret' = Rejected("insert", userId, 0, eventData, err,
                                validateEventData(Merge(Merge(Blank, Blank), eventData)))
             /\ UNCHANGED <<events, nextId>>
        ELSE /\ nextId <= MaxInserts
             /\ events' = InsertDoc(events, nextId, eventToInsert(eventData, userId))
             /\ nextId' = nextId + 1
             /\ calls' = calls
             /\ ret' = [Outcome("insert", userId, nextId, 0, "inserted")
                            EXCEPT !.data = eventData]
    /\ ncalls' = ncalls + 1
    /\ UNCHANGED <<now, subs, hook>>

InsertEvent(p) == InsertWith(p, InsertPayloads)

\* ------------------------------------------------------------------------
\* events.update
\* ------------------------------------------------------------------------
\* Partial payloads of events.update: check(updateData, Object) accepts any
\* properties.
UpdatePayloads ==
    { With(Blank, "ownerId", o) : o \in Owners }
    \cup { With(Blank, "isCompleted", FALSE) }
    \cup { With(Blank, "recurrence", r) : r \in {Null, "daily"} }
    \cup { With(Blank, "scheduledAt", StartNow + 1) }

\* The error updateEvent throws after it loaded existingEvent, or Null
updateError(existingEvent, updateData, userId) ==
    IF /\ "fishId" \in updateData.keys /\ Truthy(updateData.fishId)
       /\ updateData.fishId # existingEvent.fishId
       /\ ~FishOwned(updateData.fishId, userId)
        THEN "fish-not-found"
    ELSE IF /\ "targetType" \in updateData.keys /\ updateData.targetType = "fish"
            /\ ~Truthy(updateData.fishId) /\ ~Truthy(existingEvent.fishId)
        THEN "fish-required"
    ELSE IF ~isValid(Merge(existingEvent, updateData))
        THEN "validation-error"
    ELSE Null

\* updateFields: the payload with its notes trimmed, and with nextOccurrence
\* recomputed when the payload carries a truthy recurrence or a scheduledAt
updateFieldsOf(existingEvent, updateData) ==
    LET cleaned == IF TruthyText(updateData.notes)
                      THEN With(updateData, "notes", trim(updateData.notes))
                      ELSE updateData
    IN
    IF Truthy(updateData.recurrence) \/ HasDate(updateData.scheduledAt)
    THEN LET newScheduledAt == IF HasDate(updateData.scheduledAt)
                                  THEN updateData.scheduledAt
                                  ELSE existingEvent.scheduledAt
             newRecurrence == IF "recurrence" \in updateData.keys
                                 THEN updateData.recurrence
                                 ELSE existingEvent.recurrence
         IN  With(cleaned, "nextOccurrence",
                  IF Truthy(newRecurrence)
                     THEN calculateNextOccurrence(newScheduledAt, newRecurrence)
                     ELSE NoDate)
    ELSE cleaned

\* updateEvent up to the await of updateAsync
UpdateLookupWith(p, payloads) ==
    /\ CanStart(p)
    /\ \E userId \in Callers, eventId \in TargetIds, updateData \in payloads :
        IF userId = NoUser
        THEN calls' = calls /\ ret' = Outcome("update", userId, eventId, 0, "not-authorized")
        ELSE IF ~Owned(eventId, userId)
        THEN calls' = calls /\ ret' = Outcome("update", userId, eventId, 0, "event-not-found")
        ELSE LET existingEvent == events[eventId]
                 err == updateError(existingEvent, updateData, userId)
             IN  IF err # Null
                 THEN /\ calls' = calls
                      /\ ret' = Rejected("update", userId, eventId, updateData, err,
                                         validateEventData(Merge(existingEvent, updateData)))
                 ELSE /\ calls' = [calls EXCEPT ![p] =
                        [Idle EXCEPT !.pc = "loaded", !.op = "update",
                                     !.caller = userId, !.id = eventId,
                                     !.fields = updateFieldsOf(existingEvent, updateData)]]
                      /\ ret' = NoOutcome
    /\ ncalls' = ncalls + 1
    /\ UNCHANGED <<events, nextId, now, subs, hook>>

UpdateLookup(p) == UpdateLookupWith(p, UpdatePayloads)

\* result = await EventsCollection.updateAsync(eventId, { $set }); return result > 0
UpdateWrite(p) ==
    /\ calls[p].pc = "loaded" /\ calls[p].op = "update"
    /\ LET c == calls[p] IN
        IF c.id \in Ids
        THEN /\ events' = UpdateDoc(events, c.id, c.fields)
             /\ calls' = [calls EXCEPT ![p] = Idle] /\ ret' = Outcome("update", c.caller, c.id, 0, "true")
        ELSE /\ events' = events
             /\ calls' = [calls EXCEPT ![p] = Idle] /\ ret' = Outcome("update", c.caller, c.id, 0, "false")
    /\ UNCHANGED <<nextId, now, ncalls, subs, hook>>

\* ------------------------------------------------------------------------
\* events.delete
\* ------------------------------------------------------------------------
DeleteLookup(p) ==
    /\ CanStart(p)
    /\ \E userId \in Callers, eventId \in TargetIds :
        IF userId = NoUser
        THEN calls' = calls /\ ret' = Outcome("delete", userId, eventId, 0, "not-authorized")
        ELSE IF ~Owned(eventId, userId)
        THEN calls' = calls /\ ret' = Outcome("delete", userId, eventId, 0, "event-not-found")
        ELSE /\ calls' = [calls EXCEPT ![p] =
                [Idle EXCEPT !.pc = "loaded", !.op = "delete",
                             !.caller = userId, !.id = eventId]]
             /\ ret' = NoOutcome
    /\ ncalls' = ncalls + 1
    /\ UNCHANGED <<events, nextId, now, subs, hook>>

\* DeleteRemove returning true whatever removeAsync removed
DeleteRemoveBlind(p) ==
    /\ calls[p].pc = "loaded" /\ calls[p].op = "delete"
    /\ events' = RemoveDoc(events, calls[p].id)
    /\ calls' = [calls EXCEPT ![p] = Idle]
    /\ ret' = Outcome("delete", calls[p].caller, calls[p].id, 0, "true")
    /\ UNCHANGED <<nextId, now, ncalls, subs, hook>>
\* result = await EventsCollection.removeAsync(eventId); return result > 0
DeleteRemove(p) ==
    /\ calls[p].pc = "loaded" /\ calls[p].op = "delete"
    /\ LET c == calls[p] IN
        IF c.id \in Ids
        THEN /\ events' = RemoveDoc(events, c.id)
             /\ calls' = [calls EXCEPT ![p] = Idle] /\ ret' = Outcome("delete", c.caller, c.id, 0, "true")
        ELSE /\ events' = events
             /\ calls' = [calls EXCEPT ![p] = Idle] /\ ret' = Outcome("delete", c.caller, c.id, 0, "false")
    /\ UNCHANGED <<nextId, now, ncalls, subs, hook>>

\* ------------------------------------------------------------------------
\* events.complete
\* ------------------------------------------------------------------------
\* if (event.recurrence && event.nextOccurrence)
NeverRecurring(event) == FALSE
IsRecurring(event) == Truthy(event.recurrence) /\ HasDate(event.nextOccurrence)

\* nextEventData: the clone of the loaded event that becomes its successor
nextEventDataStale(event) ==
    [event EXCEPT !.nextOccurrence =
                      calculateNextOccurrence(event.nextOccurrence, event.recurrence),
                  !.isCompleted = FALSE,
                  !.completedAt = NoDate,
                  !.notes = <<>>]
nextEventData(event) ==
    [event EXCEPT !.scheduledAt = event.nextOccurrence,
                  !.nextOccurrence =
                      calculateNextOccurrence(event.nextOccurrence, event.recurrence),
                  !.isCompleted = FALSE,
                  !.completedAt = NoDate,
                  !.notes = <<>>]

\* completeEvent up to its first write (insertAsync or updateAsync), passed
\* one of the given notes
CompleteLookupWith(p, notesGiven) ==
    /\ CanStart(p)
    /\ \E userId \in Callers, eventId \in TargetIds, notes \in notesGiven :
        IF userId = NoUser
        THEN calls' = calls /\ ret' = Outcome("complete", userId, eventId, 0, "not-authorized")
        ELSE IF ~Owned(eventId, userId)
        THEN calls' = calls /\ ret' = Outcome("complete", userId, eventId, 0, "event-not-found")
        ELSE IF events[eventId].isCompleted
        THEN calls' = calls /\ ret' = Outcome("complete", userId, eventId, 0, "already-completed")
        ELSE /\ calls' = [calls EXCEPT ![p] =
                [Idle EXCEPT !.pc = "loaded", !.op = "complete",
                             !.caller = userId, !.id = eventId,
                             !.event = events[eventId],
                             !.notes = notes,
                             !.fields = With(With(With(Blank, "isCompleted", TRUE),
                                                  "completedAt", now),
                                             "notes", trim(notes))]]
             /\ ret' = NoOutcome
    /\ ncalls' = ncalls + 1
    /\ UNCHANGED <<events, nextId, now, subs, hook>>

\* complete(eventId): notes = ''
CompleteLookup(p) == CompleteLookupWith(p, { <<>> })

\* await EventsCollection.insertAsync(nextEventData)
CompleteSpawn(p) ==
    /\ calls[p].pc = "loaded" /\ calls[p].op = "complete"
    /\ IsRecurring(calls[p].event)
    /\ events' = InsertDoc(events, nextId, nextEventData(calls[p].event))
    /\ nextId' = nextId + 1
    /\ calls' = [calls EXCEPT ![p].pc = "spawned", ![p].spawned = nextId]
    /\ ret' = NoOutcome
    /\ UNCHANGED <<now, ncalls, subs, hook>>

\* CompleteUpdate writing the event as it was loaded, with the new fields
CompleteUpdateWhole(p) ==
    /\ calls[p].op = "complete"
    /\ \/ calls[p].pc = "spawned"
       \/ calls[p].pc = "loaded" /\ ~IsRecurring(calls[p].event)
    /\ LET c == calls[p] IN
        IF c.id \in Ids
        THEN /\ events' = [events EXCEPT ![c.id] = Merge(c.event, c.fields)]
             /\ calls' = [calls EXCEPT ![p] = Idle] /\ ret' = Outcome("complete", c.caller, c.id, c.spawned, "true")
        ELSE /\ events' = events
             /\ calls' = [calls EXCEPT ![p] = Idle] /\ ret' = Outcome("complete", c.caller, c.id, c.spawned, "false")
    /\ UNCHANGED <<nextId, now, ncalls, subs, hook>>
\* result = await EventsCollection.updateAsync(eventId, { $set }); return result > 0
CompleteUpdate(p) ==
    /\ calls[p].op = "complete"
    /\ \/ calls[p].pc = "spawned"
       \/ calls[p].pc = "loaded" /\ ~IsRecurring(calls[p].event)
    /\ LET c == calls[p] IN
        IF c.id \in Ids
        THEN /\ events' = UpdateDoc(events, c.id, c.fields)
             /\ calls' = [calls EXCEPT ![p] = Idle] /\ ret' = Outcome("complete", c.caller, c.id, c.spawned, "true")
        ELSE /\ events' = events
             /\ calls' = [calls EXCEPT ![p] = Idle] /\ ret' = Outcome("complete", c.caller, c.id, c.spawned, "false")
    /\ UNCHANGED <<nextId, now, ncalls, subs, hook>>

\* ------------------------------------------------------------------------
\* Environment
\* ------------------------------------------------------------------------
\* The awaited write of an invocation rejects: the catch block rethrows it
\* as '<method>-failed' and the invocation makes no further write.
PersistenceFails(p) ==
    /\ calls[p].pc \in {"loaded", "spawned"}
    /\ calls' = [calls EXCEPT ![p] = Idle]
    /\ ret' = Outcome(calls[p].op, calls[p].caller, calls[p].id, calls[p].spawned,
                      calls[p].op \o "-failed")
    /\ UNCHANGED <<events, nextId, now, ncalls, subs, hook>>

\* The server process stops while an invocation awaits a write: the
\* invocation never resumes and its caller gets no result.
Crash(p) ==
    /\ calls[p].pc \in {"loaded", "spawned"}
    /\ calls' = [calls EXCEPT ![p] = Idle]
    /\ ret' = NoOutcome
    /\ UNCHANGED <<events, nextId, now, ncalls, subs, hook>>

Tick ==
    /\ now < MaxNow
    /\ now' = now + 1
    /\ ret' = NoOutcome
    /\ UNCHANGED <<events, nextId, calls, ncalls, subs, hook>>

Next ==
    \/ \E p \in Procs : InsertEvent(p)
    \/ \E p \in Procs : UpdateLookup(p)
    \/ \E p \in Procs : UpdateWrite(p)
    \/ \E p \in Procs : DeleteLookup(p)
    \/ \E p \in Procs : DeleteRemove(p)
    \/ \E p \in Procs : CompleteLookup(p)
    \/ \E p \in Procs : CompleteSpawn(p)
    \/ \E p \in Procs : CompleteUpdate(p)
    \/ \E p \in Procs : PersistenceFails(p)
    \/ \E p \in Procs : Crash(p)
    \/ Tick

Spec == Init /\ [][Next]_vars

\* ------------------------------------------------------------------------
\* Target coherence: the same methods driven by payloads that vary
\* targetType, fishId and type (one valid date, no recurrence)
\* ------------------------------------------------------------------------
TargetInsertPayloads ==
    { With(With(With(With(Blank, "targetType", t), "type", ty),
           "scheduledAt", StartNow - 1), "fishId", f) :
        t \in validTargetTypes, ty \in {"feeding", "aquarium_medication"},
        f \in FishIds }
    \cup
    { With(With(With(Blank, "targetType", t), "type", ty),
           "scheduledAt", StartNow - 1) :
        t \in validTargetTypes, ty \in {"feeding", "aquarium_medication"} }

TargetUpdatePayloads ==
    { With(Blank, "targetType", t) : t \in validTargetTypes }
    \cup { With(Blank, "fishId", f) : f \in FishIds }
    \cup { With(Blank, "type", ty) : ty \in {"feeding", "aquarium_medication"} }
    \cup { With(With(Blank, "targetType", "fish"), "fishId", f) : f \in FishIds }

InsertTarget(p) == InsertWith(p, TargetInsertPayloads)
UpdateTargetLookup(p) == UpdateLookupWith(p, TargetUpdatePayloads)

NextTarget ==
    \/ \E p \in Procs : InsertTarget(p)
    \/ \E p \in Procs : UpdateTargetLookup(p)
    \/ \E p \in Procs : UpdateWrite(p)
    \/ \E p \in Procs : DeleteLookup(p)
    \/ \E p \in Procs : DeleteRemove(p)

SpecTarget == Init /\ [][NextTarget]_vars

\* ------------------------------------------------------------------------
\* events.getStats
\* ------------------------------------------------------------------------
\* getEventStats up to the await of its first count: now = new Date()
GetStatsStart(p) ==
    /\ CanStart(p)
    /\ \E userId \in Callers :
        IF userId = NoUser
        THEN calls' = calls /\ ret' = Outcome("getStats", userId, 0, 0, "not-authorized")
        ELSE /\ calls' = [calls EXCEPT ![p] =
                [Idle EXCEPT !.pc = "counting", !.op = "getStats",
                             !.caller = userId, !.at = now]]
             /\ ret' = NoOutcome
    /\ ncalls' = ncalls + 1
    /\ UNCHANGED <<events, nextId, now, subs, hook>>

\* One awaited countAsync; after the sixth the method returns the object
GetStatsCount(p) ==
    /\ calls[p].pc = "counting"
    /\ LET c == calls[p]
           counts == Append(c.counts,
                            countOf(events, c.caller,
                                    StatsQueries[Len(c.counts) + 1], c.at))
       IN  IF Len(counts) < Len(StatsQueries)
           THEN calls' = [calls EXCEPT ![p].counts = counts] /\ ret' = NoOutcome
           ELSE /\ calls' = [calls EXCEPT ![p] = Idle]
                /\ ret' = [Outcome("getStats", c.caller, 0, 0, "stats")
                               EXCEPT !.stats = statsOf(counts)]
    /\ UNCHANGED <<events, nextId, now, ncalls, subs, hook>>

\* An awaited countAsync rejects: the catch block throws stats-failed
GetStatsFails(p) ==
    /\ calls[p].pc = "counting"
    /\ calls' = [calls EXCEPT ![p] = Idle]
    /\ ret' = Outcome("getStats", calls[p].caller, 0, 0, "stats-failed")
    /\ UNCHANGED <<events, nextId, now, ncalls, subs, hook>>

\* The methods with events.getStats, driven by payloads scheduled the day
\* before the clock's (overdue; daily or not recurring) and on the clock's day
StatsInsertPayloads ==
    { With(With(With(With(Blank, "targetType", "aquarium"), "type", "feeding"),
           "scheduledAt", StartNow - 1), "recurrence", r) : r \in {Null, "daily"} }
    \cup
    { With(With(With(Blank, "targetType", "aquarium"), "type", "feeding"),
           "scheduledAt", StartNow) }

StatsUpdatePayloads == { With(Blank, "scheduledAt", StartNow + 1) }

InsertStats(p) == InsertWith(p, StatsInsertPayloads)
UpdateStatsLookup(p) == UpdateLookupWith(p, StatsUpdatePayloads)

NextStats ==
    \/ \E p \in Procs : InsertStats(p)
    \/ \E p \in Procs : UpdateStatsLookup(p)
    \/ \E p \in Procs : UpdateWrite(p)
    \/ \E p \in Procs : DeleteLookup(p)
    \/ \E p \in Procs : DeleteRemove(p)
    \/ \E p \in Procs : CompleteLookup(p)
    \/ \E p \in Procs : CompleteSpawn(p)
    \/ \E p \in Procs : CompleteUpdate(p)
    \/ \E p \in Procs : GetStatsStart(p)
    \/ \E p \in Procs : GetStatsCount(p)
    \/ \E p \in Procs : GetStatsFails(p)

SpecStats == Init /\ [][NextStats]_vars

\* ------------------------------------------------------------------------
\* Publication events.stats
\* ------------------------------------------------------------------------
\* On the server a collection call of the publication (observe, count)
\* suspends the fiber that makes it until the database answers; method
\* invocations and observe callbacks run meanwhile.  Each action below is one
\* such call with the code that follows it up to the next one.  The observe
\* driver calls added / changed / removed once for each document in which
\* the cursor's result differs from what it has reported, one callback at a
\* time for one handle.

\* EventsCollection.find({ ownerId: userId }): the result set of the cursor
OwnedDocs(userId) ==
    [i \in { j \in Ids : events[j].ownerId = userId } |-> events[i]]

\* The documents the observer of a slot has yet to report
Unreported(sub) ==
    LET owned == OwnedDocs(sub.userId) IN
    { i \in DOMAIN owned \cup DOMAIN sub.cache :
        \/ i \notin DOMAIN owned
        \/ i \notin DOMAIN sub.cache
        \/ owned[i] # sub.cache[i] }

\* The handler up to the return of observe(): the initial adds reach the
\* added callback while initializing is true; calculateStats reads the clock.
\* The slots are interchangeable: a subscription takes one fixed unused slot.
Subscribe(s) ==
    /\ subs[s].state = "none" /\ ncalls < MaxCalls
    /\ s = CHOOSE t \in Subs : subs[t].state = "none"
    /\ \E userId \in Callers :
        IF userId = NoUser
        THEN subs' = [subs EXCEPT ![s] = [NoSub EXCEPT !.state = "live", !.pc = "done",
                                                       !.name = "events.stats"]]
        ELSE subs' = [subs EXCEPT ![s] =
                [NoSub EXCEPT !.state = "initializing", !.userId = userId,
                              !.name = "events.stats",
                              !.pc = "initial", !.initializing = TRUE,
                              !.observing = TRUE, !.cache = OwnedDocs(userId),
                              !.at = now]]
    /\ ncalls' = ncalls + 1
    /\ ret' = NoOutcome
    /\ UNCHANGED <<events, nextId, now, calls, hook>>

\* One count() of the handler's calculateStats; after the sixth:
\* self.added(...), initializing = false, self.ready(), self.onStop(...).
\* added and ready do nothing on a subscription that was stopped meanwhile,
\* and onStop then runs the callback at once.
InitialCount(s) ==
    /\ subs[s].pc = "initial"
    /\ LET sub == subs[s]
           counts == Append(sub.counts,
                            countOf(events, sub.userId,
                                    StatsQueries[Len(sub.counts) + 1], sub.at))
       IN  IF Len(counts) < Len(StatsQueries)
           THEN subs' = [subs EXCEPT ![s].counts = counts]
           ELSE IF sub.state = "stopped"
           THEN subs' = [subs EXCEPT ![s].pc = "done", ![s].counts = <<>>,
                                     ![s].initializing = FALSE,
                                     ![s].observing = FALSE]
           ELSE subs' = [subs EXCEPT ![s].pc = "done", ![s].counts = <<>>,
                                     ![s].initializing = FALSE,
                                     ![s].sent = TRUE,
                                     ![s].delivered = statsOf(counts),
                                     ![s].last = "initial",
                                     ![s].state = "live",
                                     ![s].onStop = TRUE]
    /\ ret' = NoOutcome
    /\ UNCHANGED <<events, nextId, now, calls, ncalls, hook>>

\* A count() of the handler's calculateStats throws: the handler ends by the
\* exception before self.onStop(...) and the subscription is stopped with
\* the error; the stop callbacks registered so far run (there is none)
InitialFails(s) ==
    /\ subs[s].pc = "initial"
    /\ subs' = [subs EXCEPT ![s].pc = "done", ![s].counts = <<>>,
                            ![s].state = "stopped",
                            ![s].stoppedBy = IF subs[s].state = "stopped"
                                                THEN subs[s].stoppedBy ELSE "error"]
    /\ ret' = NoOutcome
    /\ UNCHANGED <<events, nextId, now, calls, ncalls, hook>>

\* The observer reports one document: added (suppressed while initializing),
\* changed or removed start calculateStats(self.userId)
Notify(s) ==
    /\ subs[s].name = "events.stats"
    /\ subs[s].observing /\ subs[s].cb = "none"
    /\ \E i \in Unreported(subs[s]) :
        LET sub == subs[s]
            owned == OwnedDocs(sub.userId)
            kind == IF i \notin DOMAIN owned THEN "removed"
                    ELSE IF i \notin DOMAIN sub.cache THEN "added"
                    ELSE "changed"
            cache == IF kind = "removed" THEN RemoveDoc(sub.cache, i)
                     ELSE InsertDoc(sub.cache, i, owned[i])
        IN  IF kind = "added" /\ sub.initializing
            THEN subs' = [subs EXCEPT ![s].cache = cache]
            ELSE subs' = [subs EXCEPT ![s].cache = cache, ![s].cb = kind,
                                      ![s].cbid = i, ![s].cbat = now,
                                      ![s].cbcounts = <<>>]
    /\ ret' = NoOutcome
    /\ UNCHANGED <<events, nextId, now, calls, ncalls, hook>>

\* One count() of the callback's calculateStats; after the sixth:
\* self.changed('eventStats', 'user-' + self.userId, stats), which does
\* nothing on a stopped subscription and throws when the document was not
\* added yet
CallbackCount(s) ==
    /\ subs[s].cb # "none"
    /\ LET sub == subs[s]
           counts == Append(sub.cbcounts,
                            countOf(events, sub.userId,
                                    StatsQueries[Len(sub.cbcounts) + 1], sub.cbat))
       IN  IF Len(counts) < Len(StatsQueries)
           THEN subs' = [subs EXCEPT ![s].cbcounts = counts]
           ELSE IF sub.state = "stopped" \/ ~sub.sent
           THEN subs' = [subs EXCEPT ![s].cb = "none", ![s].cbid = 0,
                                     ![s].cbcounts = <<>>]
           ELSE subs' = [subs EXCEPT ![s].cb = "none", ![s].cbid = 0,
                                     ![s].cbcounts = <<>>,
                                     ![s].delivered = statsOf(counts),
                                     ![s].last = sub.cb]
    /\ ret' = NoOutcome
    /\ UNCHANGED <<events, nextId, now, calls, ncalls, hook>>

\* The client unsubscribes (once the handler has returned) or its connection
\* closes (at any time): the subscription is stopped and the stop callbacks
\* registered so far run
Unsubscribe(s) ==
    /\ subs[s].state \in {"initializing", "live"}
    /\ subs' = [subs EXCEPT ![s].state = "stopped", ![s].stoppedBy = "stop",
                            ![s].observing = IF subs[s].onStop THEN FALSE
                                             ELSE subs[s].observing]
    /\ ret' = NoOutcome
    /\ UNCHANGED <<events, nextId, now, calls, ncalls, hook>>

\* The methods that write events with the publication: insert and update
\* with one payload each, complete (of events that do not recur) and delete
SubInsertPayloads ==
    { With(With(With(Blank, "targetType", "aquarium"), "type", "feeding"),
           "scheduledAt", StartNow - 1) }

SubUpdatePayloads == { With(Blank, "scheduledAt", StartNow + 1) }

InsertSub(p) == InsertWith(p, SubInsertPayloads)
UpdateSubLookup(p) == UpdateLookupWith(p, SubUpdatePayloads)

NextSub ==
    \/ \E s \in Subs : Subscribe(s)
    \/ \E s \in Subs : InitialCount(s)
    \/ \E s \in Subs : InitialFails(s)
    \/ \E s \in Subs : Notify(s)
    \/ \E s \in Subs : CallbackCount(s)
    \/ \E s \in Subs : Unsubscribe(s)
    \/ \E p \in Procs : InsertSub(p)
    \/ \E p \in Procs : UpdateSubLookup(p)
    \/ \E p \in Procs : UpdateWrite(p)
    \/ \E p \in Procs : CompleteLookup(p)
    \/ \E p \in Procs : CompleteUpdate(p)
    \/ \E p \in Procs : DeleteLookup(p)
    \/ \E p \in Procs : DeleteRemove(p)

SpecSub == Init /\ [][NextSub]_vars

\* ------------------------------------------------------------------------
\* Inserts whose payload carries properties the method sets itself
\* (check(eventData, Object) accepts any property)
\* ------------------------------------------------------------------------
PlainInsert ==
    With(With(With(Blank, "targetType", "aquarium"), "type", "feeding"),
         "scheduledAt", StartNow - 1)

ForgedInsertPayloads ==
    { PlainInsert,
      With(With(With(With(PlainInsert, "isCompleted", TRUE), "completedAt", StartNow),
                "ownerId", "B"), "nextOccurrence", StartNow + 9),
      With(With(PlainInsert, "isCompleted", TRUE), "ownerId", "A"),
      With(PlainInsert, "completedAt", StartNow - 2),
      With(PlainInsert, "priority", "high"),
      With(PlainInsert, "priority", ""),
      With(PlainInsert, "priority", "urgent"),
      With(With(PlainInsert, "recurrence", "daily"), "nextOccurrence", StartNow + 9),
      With(PlainInsert, "recurrence", "") }

InsertForged(p) == InsertWith(p, ForgedInsertPayloads)

NextForged ==
    \/ \E p \in Procs : InsertForged(p)
    \/ \E p \in Procs : DeleteLookup(p)
    \/ \E p \in Procs : DeleteRemove(p)

SpecForged == Init /\ [][NextForged]_vars

\* ------------------------------------------------------------------------
\* Two owners and the publication: updates whose payload carries ownerId
\* ------------------------------------------------------------------------
OwnerUpdatePayloads == { With(Blank, "ownerId", o) : o \in Owners }

UpdateOwnerLookup(p) == UpdateLookupWith(p, OwnerUpdatePayloads)

NextOwner ==
    \/ \E s \in Subs : Subscribe(s)
    \/ \E s \in Subs : InitialCount(s)
    \/ \E s \in Subs : InitialFails(s)
    \/ \E s \in Subs : Notify(s)
    \/ \E s \in Subs : CallbackCount(s)
    \/ \E s \in Subs : Unsubscribe(s)
    \/ \E p \in Procs : InsertSub(p)
    \/ \E p \in Procs : UpdateOwnerLookup(p)
    \/ \E p \in Procs : UpdateWrite(p)
    \/ \E p \in Procs : DeleteLookup(p)
    \/ \E p \in Procs : DeleteRemove(p)

SpecOwner == Init /\ [][NextOwner]_vars

\* ------------------------------------------------------------------------
\* The publications with the methods that write events
\* ------------------------------------------------------------------------
\* What a subscriber passes: the publication's name, the fishId of
\* events.byFish, the filters and options.limit of events.filtered
PubArgs(name, fishId, filters, limit) ==
    [name |-> name, fishId |-> fishId, filters |-> filters, limit |-> limit]

FilterPayloads ==
    { NoFilters,
      With(NoFilters, "ownerId", "A"),
      With(NoFilters, "ownerId", "B"),
      With(With(NoFilters, "fishId", "f1"), "ownerId", "B"),
      With(NoFilters, "isCompleted", FALSE),
      With(With(NoFilters, "type", "feeding"), "dateFrom", StartNow),
      With(With(NoFilters, "priority", "medium"), "dateTo", StartNow - 1) }

LimitValues == {0, 0 - 1, 1, 100, 101}

Subscriptions ==
    { PubArgs(n, Null, NoFilters, NoLimit) :
        n \in {"events.all", "events.today", "events.overdue"} }
    \cup { PubArgs("events.byFish", f, NoFilters, NoLimit) : f \in FishIds }
    \cup { PubArgs("events.filtered", Null, fl, NoLimit) : fl \in FilterPayloads }
    \cup { PubArgs("events.filtered", Null, NoFilters, l) : l \in LimitValues }

\* The result set of the cursor of a slot
ResultSet(sub) ==
    [i \in { j \in Ids : QueryMatches(events[j], sub.query) } |-> events[i]]

\* The documents in which the client's copy differs from the result set
Undelivered(sub) ==
    LET result == ResultSet(sub) IN
    { i \in DOMAIN result \cup DOMAIN sub.cache :
        \/ i \notin DOMAIN result
        \/ i \notin DOMAIN sub.cache
        \/ result[i] # sub.cache[i] }

\* The handler of a publication of documents: without a user it returns
\* this.ready(); else it returns the cursor, which is observed (its stop
\* registered with the subscription), its documents sent and ready() called
SubscribeCursor(s) ==
    /\ subs[s].state = "none" /\ ncalls < MaxCalls
    /\ s = CHOOSE t \in Subs : subs[t].state = "none"
    /\ \E userId \in Callers, a \in Subscriptions :
        IF userId = NoUser
        THEN subs' = [subs EXCEPT ![s] = [NoSub EXCEPT !.state = "live", !.pc = "done",
                                                       !.name = a.name]]
        ELSE LET q == queryOf(a.name, userId, a.fishId, a.filters, now)
             IN  subs' = [subs EXCEPT ![s] =
                    [NoSub EXCEPT !.state = "live", !.pc = "done", !.name = a.name,
                                  !.userId = userId, !.query = q,
                                  !.limit = IF a.name = "events.filtered"
                                               THEN queryLimit(a.limit) ELSE 0,
                                  !.observing = TRUE, !.onStop = TRUE,
                                  !.cache = [i \in { j \in Ids : QueryMatches(events[j], q) }
                                                |-> events[i]]]]
    /\ ncalls' = ncalls + 1
    /\ ret' = NoOutcome
    /\ UNCHANGED <<events, nextId, now, calls, hook>>

\* The observer of a cursor sends one added / changed / removed to the client
Deliver(s) ==
    /\ subs[s].name \in PubNames
    /\ subs[s].observing
    /\ \E i \in Undelivered(subs[s]) :
        LET result == ResultSet(subs[s]) IN
        subs' = [subs EXCEPT ![s].cache =
                    IF i \in DOMAIN result THEN InsertDoc(subs[s].cache, i, result[i])
                    ELSE RemoveDoc(subs[s].cache, i)]
    /\ ret' = NoOutcome
    /\ UNCHANGED <<events, nextId, now, calls, ncalls, hook>>

\* Inserts of an event of the day before and of an event of the clock's day
\* that names fish f1
PubInsertPayloads ==
    { PlainInsert,
      With(With(With(With(Blank, "targetType", "aquarium"), "type", "feeding"),
                "scheduledAt", StartNow), "fishId", "f1") }

InsertPub(p) == InsertWith(p, PubInsertPayloads)

NextPub ==
    \/ \E s \in Subs : SubscribeCursor(s)
    \/ \E s \in Subs : Deliver(s)
    \/ \E s \in Subs : Subscribe(s)
    \/ \E s \in Subs : InitialCount(s)
    \/ \E s \in Subs : Notify(s)
    \/ \E s \in Subs : CallbackCount(s)
    \/ \E s \in Subs : Unsubscribe(s)
    \/ \E p \in Procs : InsertPub(p)
    \/ \E p \in Procs : UpdateOwnerLookup(p)
    \/ \E p \in Procs : UpdateWrite(p)

SpecPub == Init /\ [][NextPub]_vars

\* ------------------------------------------------------------------------
\* Recurrence: inserts on 15, 30 and 31 January 2020 with every recurrence
\* and with the string 'none', updates of the recurrence, and completion
\* ------------------------------------------------------------------------
RecurDates == {14, 29, 30}

RecurInsertPayloads ==
    { With(With(With(With(Blank, "targetType", "aquarium"), "type", "feeding"),
           "scheduledAt", d), "recurrence", r) :
        d \in RecurDates, r \in EVENT_RECURRENCES \cup {"none"} }

RecurUpdatePayloads == { With(Blank, "recurrence", r) : r \in {"none", "weekly"} }

InsertRecur(p) == InsertWith(p, RecurInsertPayloads)
UpdateRecurLookup(p) == UpdateLookupWith(p, RecurUpdatePayloads)

NextRecur ==
    \/ \E p \in Procs : InsertRecur(p)
    \/ \E p \in Procs : UpdateRecurLookup(p)
    \/ \E p \in Procs : UpdateWrite(p)
    \/ \E p \in Procs : CompleteLookup(p)
    \/ \E p \in Procs : CompleteSpawn(p)
    \/ \E p \in Procs : CompleteUpdate(p)

SpecRecur == Init /\ [][NextRecur]_vars

\* ------------------------------------------------------------------------
\* Completion with notes: events inserted with and without notes, completed
\* with notes that carry blanks, while an update moves scheduledAt
\* ------------------------------------------------------------------------
NotesInsertPayloads ==
    { With(PlainInsert, "recurrence", r) : r \in {Null, "daily"} }
    \cup { With(PlainInsert, "notes", <<" ", "o">>) }

NotesUpdatePayloads == { With(Blank, "scheduledAt", StartNow + 1) }

NotesGiven == { <<>>, <<" ", "f", " ">> }

InsertNotes(p) == InsertWith(p, NotesInsertPayloads)
UpdateNotesLookup(p) == UpdateLookupWith(p, NotesUpdatePayloads)
CompleteNotesLookup(p) == CompleteLookupWith(p, NotesGiven)

NextNotes ==
    \/ \E p \in Procs : InsertNotes(p)
    \/ \E p \in Procs : UpdateNotesLookup(p)
    \/ \E p \in Procs : UpdateWrite(p)
    \/ \E p \in Procs : CompleteNotesLookup(p)
    \/ \E p \in Procs : CompleteSpawn(p)
    \/ \E p \in Procs : CompleteUpdate(p)

SpecNotes == Init /\ [][NextNotes]_vars

\* ------------------------------------------------------------------------
\* Client: the useEvents hook
\* ------------------------------------------------------------------------
\* err.reason of the error a Meteor.call passes to its callback (a
\* Meteor.Error of the method), or none (the call failed otherwise)
Reasons == {Null, "reason"}

\* setError(err.reason || '<message of the function>')
errorOf(fn, reason) == IF Truthy(reason) THEN reason ELSE fn \o "-error"

\* A function of the hook up to the await of its Meteor.call:
\* setIsLoading(true); setError('')
HookCall(h, fn) ==
    /\ hook.inFlight[h] = Null /\ ncalls < MaxCalls
    /\ h = CHOOSE g \in HookCalls : hook.inFlight[g] = Null
    /\ hook' = [hook EXCEPT !.isLoading = TRUE, !.error = "", !.inFlight[h] = fn]
    /\ ncalls' = ncalls + 1
    /\ ret' = NoOutcome
    /\ UNCHANGED <<events, nextId, now, calls, subs>>

completeEvent(h) == HookCall(h, "completeEvent")
createEvent(h) == HookCall(h, "createEvent")
updateEvent(h) == HookCall(h, "updateEvent")
deleteEvent(h) == HookCall(h, "deleteEvent")

\* The callback of Meteor.call gets a result: the promise resolves and
\* finally runs setIsLoading(false)
CallResolves(h) ==
    /\ hook.inFlight[h] # Null
    /\ hook' = [hook EXCEPT !.isLoading = FALSE, !.inFlight[h] = Null]
    /\ ret' = NoOutcome
    /\ UNCHANGED <<events, nextId, now, calls, ncalls, subs>>

\* The callback of Meteor.call gets an error: catch runs setError(...) and
\* rethrows, finally runs setIsLoading(false)
CallRejects(h) ==
    /\ hook.inFlight[h] # Null
    /\ \E reason \in Reasons :
        hook' = [hook EXCEPT !.isLoading = FALSE,
                             !.error = errorOf(hook.inFlight[h], reason),
                             !.inFlight[h] = Null]
    /\ ret' = NoOutcome
    /\ UNCHANGED <<events, nextId, now, calls, ncalls, subs>>

\* setError('')
clearError ==
    /\ hook.error # ""
    /\ hook' = [hook EXCEPT !.error = ""]
    /\ ret' = NoOutcome
    /\ UNCHANGED <<events, nextId, now, calls, ncalls, subs>>

NextHook ==
    \/ \E h \in HookCalls : completeEvent(h)
    \/ \E h \in HookCalls : createEvent(h)
    \/ \E h \in HookCalls : updateEvent(h)
    \/ \E h \in HookCalls : deleteEvent(h)
    \/ \E h \in HookCalls : CallResolves(h)
    \/ \E h \in HookCalls : CallRejects(h)
    \/ clearError

SpecHook == Init /\ [][NextHook]_vars

\* ------------------------------------------------------------------------
\* Properties
\* ------------------------------------------------------------------------
\* Steps of the invocation in slot p, recognised from a pair of states
Loads(p, op) == calls[p].pc = "idle" /\ calls'[p].pc = "loaded" /\ calls'[p].op = op
Spawns(p) == calls[p].pc = "loaded" /\ calls'[p].pc = "spawned"
Returns(p, op) == calls[p].pc # "idle" /\ calls[p].op = op /\ calls'[p].pc = "idle"
Succeeds(p, op) == Returns(p, op) /\ ret'.op = op /\ ret'.result = "true"

\* A method that fails before it goes in flight leaves every slot as it was
FailsAtLookup == calls' = calls /\ ret' # NoOutcome /\ ret' # ret

\* An invocation that started and ended in this step (it threw before its
\* first awaited write, or it is an insert)
StartsAndEnds(op) == ncalls' = ncalls + 1 /\ ret'.op = op

\* The outcome of an update that got past authentication and event lookup
PastLookup(r) ==
    r.caller \in Owners /\ r.result \notin {"not-authorized", "event-not-found"}

\* A record that breaks the rule "aquarium_medication targets the aquarium"
Incoherent(e) == e.type = "aquarium_medication" /\ e.targetType = "fish"

Has(seq, x) == \E i \in DOMAIN seq : seq[i] = x

\* The recurrence of the claims: daily, weekly or monthly with a next occurrence
Recurs(e) == e.recurrence \in EVENT_RECURRENCES /\ e.nextOccurrence # NoDate

\* C1: complete works on the event as it was stored when the call loaded it
\* (not completed, owned by the caller).  If that event recurs (recurrence
\* daily, weekly or monthly, nextOccurrence non-null) the call inserts exactly
\* one new event, every other event unchanged, with scheduledAt = the loaded
\* nextOccurrence, isCompleted = false, completedAt = null and nextOccurrence
\* = the recurrence calculator applied to the loaded nextOccurrence; its final
\* write adds no event; a call that succeeds has inserted a successor if and
\* only if the loaded event recurs, so an event without recurrence adds none.
C1_CompleteSpawnsOneSuccessor ==
    [][\A p \in Procs :
        /\ Loads(p, "complete") =>
              /\ calls'[p].id \in Ids
              /\ calls'[p].event = events[calls'[p].id]
              /\ ~calls'[p].event.isCompleted
              /\ calls'[p].event.ownerId = calls'[p].caller
              /\ calls'[p].spawned = 0
              /\ events' = events
        /\ (calls[p].op = "complete" /\ Spawns(p)) =>
              LET e == calls[p].event
                  new == calls'[p].spawned
              IN  /\ Recurs(e)
                  /\ calls[p].spawned = 0
                  /\ new \notin Ids
                  /\ DOMAIN events' = Ids \cup {new}
                  /\ \A i \in Ids : events'[i] = events[i]
                  /\ events'[new].scheduledAt = e.nextOccurrence
                  /\ events'[new].isCompleted = FALSE
                  /\ events'[new].completedAt = NoDate
                  /\ events'[new].nextOccurrence =
                        calculateNextOccurrence(e.nextOccurrence, e.recurrence)
        /\ Succeeds(p, "complete") =>
              /\ DOMAIN events' = Ids
              /\ (calls[p].spawned # 0) <=> Recurs(calls[p].event)
    ]_vars

\* C1 witness: a complete of a recurring event has returned success; the
\* successor it inserted is stored, scheduled at the original's nextOccurrence
C1_Witness ==
    /\ ret.op = "complete" /\ ret.result = "true"
    /\ ret.id \in Ids /\ ret.spawned \in Ids
    /\ events[ret.id].isCompleted
    /\ Recurs(events[ret.id])
    /\ events[ret.spawned].scheduledAt = events[ret.id].nextOccurrence
    /\ ~events[ret.spawned].isCompleted

\* C2: of two complete calls issued on the same not-yet-completed recurring
\* event at most one returns success and exactly one successor is spawned: a
\* complete never returns success on an event that another complete has
\* already marked completed, and never inserts a successor of an event that
\* is already completed or whose successor another call in flight inserted.
C2_AtMostOneCompleteSucceeds ==
    [][\A p \in Procs :
        /\ (Succeeds(p, "complete") /\ Recurs(calls[p].event) /\ calls[p].id \in Ids)
              => ~events[calls[p].id].isCompleted
        /\ (calls[p].op = "complete" /\ Spawns(p) /\ calls[p].id \in Ids) =>
              /\ ~events[calls[p].id].isCompleted
              /\ \A q \in Procs \ {p} :
                    ~(calls[q].op = "complete" /\ calls[q].id = calls[p].id
                      /\ calls[q].pc = "spawned")
    ]_vars

\* C3: whenever complete marks a recurring event completed (its final write
\* succeeds), the same call has already inserted the successor; a call that
\* stops between the two writes leaves the original not completed.
C3_SpawnBeforeComplete ==
    [][\A p \in Procs :
        /\ (Succeeds(p, "complete") /\ Recurs(calls[p].event)) =>
              /\ calls[p].pc = "spawned"
              /\ calls[p].spawned # 0 /\ calls[p].spawned < nextId
        /\ (calls[p].op = "complete" /\ Spawns(p)) =>
              (calls[p].id \in Ids =>
                  events'[calls[p].id].isCompleted = events[calls[p].id].isCompleted)
        /\ (Returns(p, "complete") /\ ~Succeeds(p, "complete")) => events' = events
    ]_vars

\* C3 witness: the write of complete failed after the successor was inserted:
\* the original is still not completed and its successor is stored
C3_Witness ==
    /\ ret.op = "complete" /\ ret.result = "complete-failed"
    /\ ret.id \in Ids /\ ret.spawned \in Ids
    /\ ~events[ret.id].isCompleted
    /\ events[ret.spawned].scheduledAt = events[ret.id].nextOccurrence

\* C4: a write step of a call made by caller A modifies or removes only
\* events whose ownerId is A at the time of the write.
C4_WritesOnlyOwnEvents ==
    [][\A p \in Procs :
        (calls[p].pc # "idle" /\ calls'[p] # calls[p]) =>
            \A i \in Ids :
                (i \notin DOMAIN events' \/ events'[i] # events[i])
                    => events[i].ownerId = calls[p].caller
    ]_vars

\* C5: the ownerId of a stored event never changes.
C5_OwnerIdImmutable ==
    [][\A i \in Ids \cap DOMAIN events' :
        events'[i].ownerId = events[i].ownerId
    ]_vars

\* C6: update, delete and complete by a logged-in caller on an id that is
\* not stored, and on an id stored for another owner, end the same way: the
\* call throws event-not-found at its lookup, writes nothing, and never goes
\* on to a write, whatever the payload and the state of the other's event.
C6_ForeignLooksMissing ==
    [][/\ (/\ FailsAtLookup
           /\ ret'.op \in {"update", "delete", "complete"}
           /\ ret'.caller \in Owners
           /\ (ret'.id \notin Ids \/ events[ret'.id].ownerId # ret'.caller))
          => (ret'.result = "event-not-found" /\ events' = events /\ nextId' = nextId)
       /\ \A p \in Procs :
            (calls[p].pc = "idle" /\ calls'[p].pc # "idle") =>
                /\ calls'[p].id \in Ids
                /\ events[calls'[p].id].ownerId = calls'[p].caller
    ]_vars

\* C6 witness: a call on an id stored for another owner, whose event is
\* already completed, has thrown event-not-found
C6_Witness ==
    /\ ret.op \in {"update", "delete", "complete"}
    /\ ret.result = "event-not-found"
    /\ ret.id \in Ids
    /\ events[ret.id].ownerId # ret.caller
    /\ events[ret.id].isCompleted

\* C7: once an event has isCompleted = true it keeps it while it is stored.
C7_CompletionTerminal ==
    [][\A i \in Ids \cap DOMAIN events' :
        events[i].isCompleted => events'[i].isCompleted
    ]_vars

\* C8: every stored event has a non-null nextOccurrence if and only if its
\* recurrence is non-null.
C8_NextOccurrenceIffRecurrence ==
    \A i \in Ids : HasDate(events[i].nextOccurrence) <=> Truthy(events[i].recurrence)

\* C9: every stored event with a non-null completedAt has
\* completedAt >= scheduledAt.
C9_CompletedNotBeforeScheduled ==
    \A i \in Ids :
        HasDate(events[i].completedAt) => events[i].completedAt >= events[i].scheduledAt

\* C10: every stored event with targetType = fish has a fishId that names a
\* fish owned by the event's ownerId.
C10_FishTargetOwned ==
    \A i \in Ids :
        events[i].targetType = "fish"
            => (events[i].fishId \in FishIds
                /\ FishCollection[events[i].fishId] = events[i].ownerId)

\* C11: every stored event has a fishId if and only if its targetType is
\* fish: an insert of an aquarium payload stores no fishId and an update
\* from fish to aquarium leaves no fishId.
C11_FishIdIffFishTarget ==
    \A i \in Ids : Truthy(events[i].fishId) <=> events[i].targetType = "fish"

\* C12 (as stated): every insert by a logged-in caller whose payload has type
\* aquarium_medication and targetType fish throws validation-error with the
\* coherence message among its messages and stores nothing; an update whose
\* merged record breaks the same rule throws validation-error and leaves the
\* store unchanged.
C12_IncoherentAlwaysValidationError ==
    [][/\ (StartsAndEnds("insert") /\ ret'.caller \in Owners
           /\ Incoherent(ret'.data))
          => /\ ret'.result = "validation-error"
             /\ Has(ret'.errors, "aquarium-medication-target")
             /\ events' = events
       /\ (StartsAndEnds("update") /\ PastLookup(ret')
           /\ Incoherent(Merge(events[ret'.id], ret'.data)))
          => /\ ret'.result = "validation-error"
             /\ events' = events
    ]_vars

\* C12 (amended): such an insert is always rejected and stores nothing.  It
\* throws validation-error, with the coherence message among its messages,
\* when the payload's fishId names a fish of the caller; it throws
\* match-failed only when the payload has no fishId and fish-not-found only
\* when the fishId names no fish of the caller, both thrown before the
\* validation.  An update whose merged record (stored event + payload) breaks
\* the rule is rejected at its lookup and leaves the store unchanged: with
\* validation-error carrying the coherence message, or before the validation
\* with fish-not-found (the payload's fishId names no fish of the caller) or
\* fish-required (the merged record has no fishId); no update goes on to its
\* write with an incoherent merged record.
C12_IncoherentRejected ==
    [][/\ (StartsAndEnds("insert") /\ ret'.caller \in Owners
           /\ Incoherent(ret'.data))
          => /\ events' = events /\ nextId' = nextId
             /\ ret'.result \in {"match-failed", "fish-not-found", "validation-error"}
             /\ ret'.result = "match-failed" => ~Truthy(ret'.data.fishId)
             /\ ret'.result = "fish-not-found"
                    => ~FishOwned(ret'.data.fishId, ret'.caller)
             /\ ret'.result = "validation-error"
                    => Has(ret'.errors, "aquarium-medication-target")
       /\ (StartsAndEnds("update") /\ PastLookup(ret')
           /\ Incoherent(Merge(events[ret'.id], ret'.data)))
          => /\ events' = events
             /\ ret'.result \in {"fish-not-found", "fish-required", "validation-error"}
             /\ ret'.result = "fish-not-found"
                    => ~FishOwned(ret'.data.fishId, ret'.caller)
             /\ ret'.result = "fish-required"
                    => ~Truthy(Merge(events[ret'.id], ret'.data).fishId)
             /\ ret'.result = "validation-error"
                    => Has(ret'.errors, "aquarium-medication-target")
       /\ \A p \in Procs :
            Loads(p, "update") =>
                ~Incoherent(Merge(events[calls'[p].id], calls'[p].fields))
    ]_vars

\* C12 witness: an update that would turn a stored aquarium_medication event
\* into a fish-targeted one, naming a fish of the caller, was rejected with
\* validation-error carrying the coherence message; the event is as it was
C12_Witness ==
    /\ ret.op = "update" /\ ret.result = "validation-error"
    /\ Has(ret.errors, "aquarium-medication-target")
    /\ ret.id \in Ids
    /\ events[ret.id].type = "aquarium_medication"
    /\ events[ret.id].targetType = "aquarium"
    /\ ret.data.targetType = "fish"
    /\ FishOwned(ret.data.fishId, ret.caller)

\* C13: insert, update, delete, complete and getStats invoked on a connection
\* that is not logged in throw not-authorized in their first step, before
\* any collection call: the store is unchanged, no invocation goes in flight
\* (none awaits a lookup, a count or a write) for such a caller.
C13_UnauthenticatedRejected ==
    [][/\ (ncalls' = ncalls + 1 /\ ret'.op # Null /\ ret'.caller = NoUser)
          => /\ ret'.op \in {"insert", "update", "delete", "complete", "getStats"}
             /\ ret'.result = "not-authorized"
             /\ events' = events /\ nextId' = nextId
             /\ calls' = calls
       /\ \A p \in Procs :
            calls'[p].pc # "idle" => calls'[p].caller \in Owners
    ]_vars

\* C13 witness: getStats on a connection that is not logged in has thrown
\* not-authorized while events are stored
C13_Witness ==
    /\ ret.op = "getStats" /\ ret.caller = NoUser
    /\ ret.result = "not-authorized"
    /\ Ids # {}

\* The removal of the delete in slot p runs to its end in this step
Removes(p) ==
    Returns(p, "delete") /\ ret'.op = "delete" /\ ret'.result # "delete-failed"

\* C14 (as stated): a delete on an id that is no longer stored, deleted by
\* an earlier call or by a concurrent call between this call's lookup and
\* its removal, throws event-not-found and leaves the store unchanged.
C14_DeleteOfMissingThrowsNotFound ==
    [][/\ (FailsAtLookup /\ ret'.op = "delete" /\ ret'.caller \in Owners
           /\ ret'.id \notin Ids)
          => (ret'.result = "event-not-found" /\ events' = events)
       /\ \A p \in Procs :
            (Removes(p) /\ calls[p].id \notin Ids)
                => (ret'.result = "event-not-found" /\ events' = events)
    ]_vars

\* C14 (amended): a delete on an id that is no longer stored leaves the
\* store unchanged and never returns success: it throws event-not-found when
\* the id is already gone at its lookup, and it returns false, without an
\* error, when a concurrent call removed the event between its lookup and
\* its removal.
C14_DeleteOfMissingNeverSucceeds ==
    [][/\ (FailsAtLookup /\ ret'.op = "delete" /\ ret'.caller \in Owners
           /\ ret'.id \notin Ids)
          => (ret'.result = "event-not-found" /\ events' = events)
       /\ \A p \in Procs :
            /\ (Removes(p) /\ calls[p].id \notin Ids)
                  => (ret'.result = "false" /\ events' = events)
            /\ (Removes(p) /\ calls[p].id \in Ids)
                  => (ret'.result = "true" /\ events' = RemoveDoc(events, calls[p].id))
    ]_vars

\* C14 witness: a delete whose event was removed by another call after its
\* lookup has returned false; the id is not stored
C14_Witness ==
    /\ ret.op = "delete" /\ ret.result = "false"
    /\ ret.caller \in Owners
    /\ ret.id \notin Ids /\ ret.id < nextId

\* C15: every event insert stores has isCompleted = false, completedAt =
\* null and ownerId = the caller, whatever the payload carries for
\* isCompleted, completedAt, ownerId or nextOccurrence; its priority is
\* medium when the payload has none and its recurrence is null when the
\* payload has none.  The insert stores that one event and changes no other.
C15_InsertNormalizes ==
    [][(StartsAndEnds("insert") /\ ret'.result = "inserted") =>
        LET new == ret'.id
            data == ret'.data
        IN  /\ new \notin Ids
            /\ DOMAIN events' = Ids \cup {new}
            /\ \A i \in Ids : events'[i] = events[i]
            /\ events'[new].isCompleted = FALSE
            /\ events'[new].completedAt = NoDate
            /\ events'[new].ownerId = ret'.caller
            /\ ret'.caller \in Owners
            /\ events'[new].priority =
                  (IF "priority" \in data.keys /\ data.priority # ""
                      THEN data.priority ELSE "medium")
            /\ events'[new].recurrence =
                  (IF "recurrence" \in data.keys /\ data.recurrence # ""
                      THEN data.recurrence ELSE Null)
    ]_vars

\* C15 witness: an insert whose payload carried isCompleted = true, a
\* completedAt, another user's ownerId and a nextOccurrence was stored as a
\* not-completed event of the caller with priority medium
C15_Witness ==
    /\ ret.op = "insert" /\ ret.result = "inserted"
    /\ ret.data.isCompleted /\ HasDate(ret.data.completedAt)
    /\ ret.data.ownerId \in Owners \ {ret.caller}
    /\ HasDate(ret.data.nextOccurrence)
    /\ ret.id \in Ids
    /\ ~events[ret.id].isCompleted /\ ~HasDate(events[ret.id].completedAt)
    /\ events[ret.id].ownerId = ret.caller
    /\ events[ret.id].priority = "medium"

\* The count query number k of the getStats in slot p runs in this step
Counts(p, k) ==
    /\ calls[p].pc = "counting" /\ Len(calls[p].counts) = k - 1
    /\ calls'[p] # calls[p]
    /\ ~(ret'.op = "getStats" /\ ret'.result = "stats-failed")

\* The events of userId that are stored, not completed and scheduled before at
OverdueOf(userId, at) ==
    { i \in Ids : /\ events[i].ownerId = userId
                  /\ events[i].isCompleted = FALSE
                  /\ events[i].scheduledAt < at }

\* C16: the overdue that getStats returns is the number of the caller's
\* stored events with isCompleted = false and scheduledAt < now, now being
\* the clock when the call started and the store being the one its overdue
\* query ran on; events of other owners are never counted.  Each of the six
\* counts depends only on the store, the caller and that now, so two calls
\* with the same now and no write in between return equal objects.
C16_OverdueCount ==
    [][\A p \in Procs :
        LET c == calls[p]
            mine == { i \in Ids : events[i].ownerId = c.caller }
            done == { i \in mine : events[i].isCompleted = TRUE }
            today == { i \in mine : events[i].scheduledAt = c.at }
            counted == IF calls'[p].pc = "counting" THEN calls'[p].counts
                       ELSE <<ret'.stats.total, ret'.stats.completed,
                              ret'.stats.pending, ret'.stats.overdue,
                              ret'.stats.todayTotal, ret'.stats.todayCompleted>>
        IN  /\ Counts(p, 4) => counted[4] = Cardinality(OverdueOf(c.caller, c.at))
            /\ Counts(p, 1) => counted[1] = Cardinality(mine)
            /\ Counts(p, 2) => counted[2] = Cardinality(done)
            /\ Counts(p, 3) => counted[3] = Cardinality(mine \ done)
            /\ Counts(p, 5) => counted[5] = Cardinality(today)
            /\ Counts(p, 6) =>
                  /\ counted[6] = Cardinality(today \cap done)
                  /\ \A k \in 1 .. 5 : counted[k] = c.counts[k]
                  /\ ret'.caller = c.caller /\ ret'.result = "stats"
            /\ (c.pc = "counting" /\ calls'[p].pc = "counting")
                  => (calls'[p].at = c.at /\ calls'[p].caller = c.caller
                      /\ \A k \in 1 .. Len(c.counts) : calls'[p].counts[k] = c.counts[k])
    ]_vars

\* C16 witness: getStats has returned overdue = 1 to a caller who has one
\* overdue event while another owner has an overdue event too
C16_Witness ==
    /\ ret.op = "getStats" /\ ret.result = "stats"
    /\ ret.stats.overdue = 1
    /\ Cardinality(OverdueOf(ret.caller, now)) = 1
    /\ \E o \in Owners \ {ret.caller} : OverdueOf(o, now) # {}

\* The observe callback of slot s ends in this step by sending its changed
Delivers(s) ==
    /\ subs[s].cb # "none" /\ subs'[s].cb = "none"
    /\ subs[s].state = "live" /\ subs[s].sent

\* r is 100 x completed / total rounded to the nearest integer, halves up
IsRounded(r, completed, total) ==
    IF total = 0 THEN r = 0
    ELSE 2 * r * total <= 200 * completed + total
         /\ 200 * completed + total < 2 * (r + 1) * total

\* C17 (as stated): while a subscription is live, the update that the added
\* callback of an insert by its owner sends has total one more than the
\* snapshot delivered before it, the same completed, and completionRate =
\* round(100 x completed / total).  (The snapshot delivered before it is
\* one that counted the events reported before this insert, so the insert
\* was not yet counted.)
C17_InsertAddsOneToTotal ==
    [][\A s \in Subs :
        (/\ Delivers(s) /\ subs[s].cb = "added"
         /\ subs[s].delivered.total = Cardinality(DOMAIN subs[s].cache) - 1) =>
            /\ subs'[s].delivered.total = subs[s].delivered.total + 1
            /\ subs'[s].delivered.completed = subs[s].delivered.completed
            /\ IsRounded(subs'[s].delivered.completionRate,
                         subs'[s].delivered.completed, subs'[s].delivered.total)
    ]_vars

\* C17 (amended): while a subscription is live, every insert by its owner
\* that the observer reports starts a recomputation, and the update it sends
\* replaces the one stats document of that subscription.  Each count of the
\* recomputation is the owner's count in the store when that count query
\* runs, so total is one more than in the snapshot delivered before, and
\* completed the same, only when no other write of the owner commits in
\* between; completionRate = round(100 x completed / total), 0 when total is
\* 0 (6 of 11 gives 55).
C17_InsertRecomputesFromStore ==
    [][\A s \in Subs :
           LET sub == subs[s]
               mine == { i \in Ids : events[i].ownerId = sub.userId }
               done == { i \in mine : events[i].isCompleted = TRUE }
               k == Len(sub.cbcounts) + 1
           IN  /\ (/\ sub.state = "live" /\ sub.observing /\ sub.cb = "none"
                   /\ DOMAIN subs'[s].cache # DOMAIN sub.cache
                   /\ DOMAIN sub.cache \subseteq DOMAIN subs'[s].cache)
                  => /\ subs'[s].cb = "added" /\ subs'[s].cbcounts = <<>>
                     /\ subs'[s].cbid \in mine \ DOMAIN sub.cache
               /\ (sub.cb = "added" /\ subs'[s].cbcounts # sub.cbcounts
                   /\ subs'[s].cb = "added")
                  => /\ k = 1 => subs'[s].cbcounts[1] = Cardinality(mine)
                     /\ k = 2 => subs'[s].cbcounts[2] = Cardinality(done)
                     /\ \A j \in 1 .. Len(sub.cbcounts) :
                           subs'[s].cbcounts[j] = sub.cbcounts[j]
               /\ (Delivers(s) /\ sub.cb = "added")
                  => /\ subs'[s].delivered.total = sub.cbcounts[1]
                     /\ subs'[s].delivered.completed = sub.cbcounts[2]
                     /\ subs'[s].sent /\ subs'[s].state = "live"
                     /\ IsRounded(subs'[s].delivered.completionRate,
                                  sub.cbcounts[2], sub.cbcounts[1])
                     /\ completionRateOf(6, 11) = 55
                     /\ \A t \in 0 .. 11 : \A c \in 0 .. t :
                           IsRounded(completionRateOf(c, t), c, t)
    ]_vars

\* C17 witness: on a live subscription the added callback of an insert has
\* sent an update whose total is the owner's two stored events, none of them
\* completed
C17_Witness ==
    \E s \in Subs :
        /\ subs[s].state = "live" /\ subs[s].last = "added"
        /\ subs[s].delivered.total = 2
        /\ subs[s].delivered.completed = 0
        /\ subs[s].delivered.completionRate = 0
        /\ Cardinality({ i \in Ids : events[i].ownerId = subs[s].userId }) = 2

\* Writes have stopped and slot s has nothing left to do: no method is in
\* flight, the handler has returned, the observer has reported every
\* document and no callback is running
Settled(s) ==
    /\ \A p \in Procs : calls[p].pc = "idle"
    /\ subs[s].state = "live" /\ subs[s].observing
    /\ subs[s].pc = "done" /\ subs[s].cb = "none"
    /\ Unreported(subs[s]) = {}

\* C18: every write committed on an owner's events after the owner's
\* subscription was created, while it is initializing included, is observed
\* by it, so that once writes have stopped and the subscription has nothing
\* left to do, the snapshot it delivered last is the statistics of the
\* owner's events now stored.
C18_LastSnapshotIsCurrent ==
    \A s \in Subs :
        Settled(s) =>
            LET mine == { i \in Ids : events[i].ownerId = subs[s].userId }
                done == { i \in mine : events[i].isCompleted = TRUE }
                today == { i \in mine : events[i].scheduledAt = now }
                d == subs[s].delivered
            IN  /\ d.total = Cardinality(mine)
                /\ d.completed = Cardinality(done)
                /\ d.pending = Cardinality(mine \ done)
                /\ d.overdue = Cardinality(OverdueOf(subs[s].userId, now))
                /\ d.todayTotal = Cardinality(today)
                /\ d.todayCompleted = Cardinality(today \cap done)

\* C19: once a subscription has been stopped by its client (unsubscribe or
\* connection close) it stays stopped, no recomputation is started for it
\* and nothing more is delivered to it, whatever writes follow.
C19_StoppedIsQuiet ==
    [][\A s \in Subs :
        (subs[s].state = "stopped" /\ subs[s].stoppedBy = "stop") =>
            /\ subs'[s].state = "stopped"
            /\ subs[s].cb = "none" => subs'[s].cb = "none"
            /\ subs'[s].delivered = subs[s].delivered
    ]_vars

\* C20: on every path by which the publish handler ends, by its return or
\* by an exception of the initial snapshot, a listener that is still
\* registered belongs to a subscription that is initializing or live, so
\* the registered listeners never outnumber those subscriptions.
C20_ListenerReleasedOnExit ==
    /\ \A s \in Subs :
        (subs[s].pc = "done" /\ subs[s].observing)
            => subs[s].state \in {"initializing", "live"}
    /\ (\A s \in Subs : subs[s].pc \in {"idle", "done"}) =>
        Cardinality({ s \in Subs : subs[s].observing })
            <= Cardinality({ s \in Subs : subs[s].state \in {"initializing", "live"} })

\* The caller of the invocation whose step writes the store
Writer ==
    IF \E p \in Procs : calls[p].pc # "idle" /\ calls'[p] # calls[p]
    THEN (CHOOSE c \in Callers :
            \E p \in Procs : /\ calls[p].pc # "idle" /\ calls'[p] # calls[p]
                             /\ calls[p].caller = c)
    ELSE ret'.caller

\* C21: a write to the store made by an invocation of one owner (insert,
\* update with any partial payload, delete, complete) leaves the result set
\* of the events.stats cursor of every live subscription of another owner as
\* it was, so that subscription has nothing to report, nothing to recompute
\* and nothing to deliver because of it.
C21_ForeignWriteInvisible ==
    [][\A s \in Subs :
        (/\ events' # events
         /\ subs[s].state = "live" /\ subs[s].userId \in Owners
         /\ subs[s].userId # Writer)
        => /\ OwnedDocs(subs[s].userId)' = OwnedDocs(subs[s].userId)
           /\ Unreported(subs[s])' = Unreported(subs[s])
    ]_vars

\* C22: every document a client holds from events.all, events.byFish,
\* events.today, events.overdue or events.filtered, whatever fishId, filters
\* and options it subscribed with, has the subscriber's ownerId; a subscriber
\* that is not logged in is ready with no document, and on events.stats with
\* no snapshot and no observer.
C22_DeliveredDocsAreOwn ==
    \A s \in Subs :
        /\ subs[s].name \in PubNames =>
              \A i \in DOMAIN subs[s].cache :
                  /\ subs[s].userId \in Owners
                  /\ subs[s].cache[i].ownerId = subs[s].userId
        /\ (subs[s].state # "none" /\ subs[s].userId = NoUser) =>
              /\ subs[s].state \in {"live", "stopped"}
              /\ subs[s].cache = << >>
              /\ ~subs[s].sent /\ ~subs[s].observing /\ subs[s].cb = "none"

\* C22 witness: a subscriber of events.filtered that passed another owner's
\* id as a filter holds a document, while the other owner has one stored
C22_Witness ==
    \E s \in Subs :
        /\ subs[s].name = "events.filtered" /\ subs[s].userId = "A"
        /\ subs[s].cache # << >>
        /\ \E i \in Ids : events[i].ownerId = "B"

\* C23: whatever options.limit a subscriber of events.filtered passes
\* (none, zero, negative, above 100), the limit of the cursor is a positive
\* integer no greater than 100.
C23_LimitWithinCap ==
    \A s \in Subs :
        (subs[s].name = "events.filtered" /\ subs[s].userId \in Owners)
            => subs[s].limit \in 1 .. 100

\* The day next has the day of month of the day anchor and lies in the
\* calendar month that follows the anchor's
OneMonthLater(anchor, next) ==
    /\ getDate(next) = getDate(anchor)
    /\ getMonth(next) = (getMonth(anchor) + 1) % 12
    /\ getFullYear(next) =
          getFullYear(anchor) + (IF getMonth(anchor) = 11 THEN 1 ELSE 0)

C25_NoneIsARecurrence ==
    [][/\ (StartsAndEnds("insert") /\ ret'.caller \in Owners
                /\ ret'.data.recurrence = "none") =>
            /\ ret'.result = "inserted"
            /\ events'[ret'.id].nextOccurrence = NoDate
       /\ (StartsAndEnds("update") /\ ret'.caller \in Owners
                /\ ret'.data.recurrence = "none") =>
            ret'.result # "validation-error"
    ]_vars

\* The fields of an event that complete writes
CompletionFields == {"isCompleted", "completedAt", "notes"}

\* C26: the write of a complete that returns success changes, on the event
\* it completes, isCompleted, completedAt and notes only (notes become the
\* trimmed notes the call was passed, whatever they were), leaves every
\* other field of it and every other event as stored, and adds or removes
\* no event; the write that spawns the successor adds that one event and
\* changes no other.
C26_CompleteFrame ==
    [][\A p \in Procs :
        /\ Succeeds(p, "complete") =>
              LET id == calls[p].id IN
              /\ DOMAIN events' = Ids
              /\ \A i \in Ids \ {id} : events'[i] = events[i]
              /\ \A k \in DocFields \ CompletionFields : events'[id][k] = events[id][k]
              /\ events'[id].isCompleted
              /\ events'[id].completedAt = now
              /\ events'[id].notes = trim(calls[p].notes)
              /\ events'[id].notes = <<>> \/ (Head(events'[id].notes) # " "
                    /\ events'[id].notes[Len(events'[id].notes)] # " ")
        /\ (calls[p].op = "complete" /\ Spawns(p)) =>
              /\ DOMAIN events' = Ids \cup {calls'[p].spawned}
              /\ \A i \in Ids : events'[i] = events[i]
    ]_vars

\* C26 witness: an event that an update rescheduled has been completed with
\* notes passed with blanks around them, which are stored trimmed
C26_Witness ==
    /\ ret.op = "complete" /\ ret.result = "true" /\ ret.id \in Ids
    /\ events[ret.id].notes = <<"f">>
    /\ events[ret.id].scheduledAt = StartNow + 1
    /\ events[ret.id].isCompleted

\* C27: every object events.getStats returns is the statistics of one state
\* of the store, also when writes of the same owner commit between its
\* counts: completed + pending = total, and today's remaining = today's
\* total - today's completed, which is not negative.
C27_StatsOfOneState ==
    (ret.op = "getStats" /\ ret.result = "stats") =>
        /\ ret.stats.completed + ret.stats.pending = ret.stats.total
        /\ ret.stats.todayRemaining = ret.stats.todayTotal - ret.stats.todayCompleted
        /\ ret.stats.todayRemaining >= 0

\* C28: in every reachable state every stored event with a recurrence has
\* nextOccurrence = the recurrence calculator applied to its own scheduledAt
\* and recurrence, which is later than its scheduledAt.
C28_NextOccurrenceFromOwnSchedule ==
    \A i \in Ids :
        Truthy(events[i].recurrence) =>
            /\ events[i].nextOccurrence =
                  calculateNextOccurrence(events[i].scheduledAt, events[i].recurrence)
            /\ events[i].nextOccurrence > events[i].scheduledAt

C30_LoadingWhileInFlight ==
    hook.isLoading <=> (\E h \in HookCalls : hook.inFlight[h] # Null)

====
